---------------------------- MODULE Spec2Model ----------------------------
(***************************************************************************)
(* Model of neighbor_info.py / switches.py: main() walks the inventory and *)
(* calls one extractor per device (nxos_cdp_filter, ios_cdp_filter,        *)
(* eos_lldp_filter).  Text is a sequence of one-character strings, so the  *)
(* regular expression of ios_cdp_filter is evaluated character by          *)
(* character with Python's backtracking priorities.                        *)
(***************************************************************************)
EXTENDS Naturals, Sequences, FiniteSets, TLC

\* inventory : the rows of inventory.csv (main, line 23)
\* idx       : the position of main's for loop in the inventory (line 26)
\* pc        : "loop" in the loop, "done" after line 41, "aborted" when an
\*             exception has left main
\* inv_dict  : main's inv_dict (line 24)
\* fout      : the file neighbors_<date>.json (lines 39-41)
\* stdout    : what print and pprint have written, in order
\* last      : the extractor call of the latest loop iteration: what the device
\*             answered (r1, r2 for NX-OS; reply for IOS and EOS), how many times
\*             it was asked, and what the extractor gave back
VARIABLES inventory, idx, pc, inv_dict, fout, stdout, last

vars == <<inventory, idx, pc, inv_dict, fout, stdout, last>>

\* ------------------------------------------------------------------ bounds
MaxDevices == 2
MaxRows == 3

\* ------------------------------------------------------------ Python values
None == [kind |-> "None", val |-> <<>>]
List(s) == [kind |-> "list", val |-> s]

\* ------------------------------------------------------- characters, text
NL == "\n"
SP == " "
IsSpace(c) == c \in {SP, NL}

\* s[a..b-1]: the slice of s from position a up to, not including, b
Slice(s, a, b) == IF b <= a THEN <<>> ELSE SubSeq(s, a, b - 1)

\* does pat occur in s at position p
OccursAt(s, pat, p) ==
    /\ p + Len(pat) - 1 <= Len(s)
    /\ \A j \in 1..Len(pat) : s[p + j - 1] = pat[j]

\* position of the first occurrence of pat in s at or after p; 0 when none
RECURSIVE Find(_, _, _)
Find(s, pat, p) ==
    IF p + Len(pat) - 1 > Len(s) THEN 0
    ELSE IF OccursAt(s, pat, p) THEN p
    ELSE Find(s, pat, p + 1)

\* str.split(pat): the pieces of s between the occurrences of pat
RECURSIVE SplitFrom(_, _, _)
SplitFrom(s, pat, p) ==
    LET q == Find(s, pat, p)
    IN IF q = 0 THEN <<Slice(s, p, Len(s) + 1)>>
       ELSE <<Slice(s, p, q)>> \o SplitFrom(s, pat, q + Len(pat))

Split(s, pat) == SplitFrom(s, pat, 1)

\* 'Port ID\n', the header marker of ios_cdp_filter
Marker == <<"P", "o", "r", "t", SP, "I", "D", NL>>

\* --------------------------------------------------- the regex of line 103
\* (\S+)\s+(\S+ \S+)\s+(\S+)\s+((\S \S \S \S \S)|(\S \S \S \S)|(\S \S \S)|(\S \S)|(\S))\s+(\S+)\s+(.*)
\* as its sequence of pieces: "NS" is \S+, "WS" is \s+, "SP" the literal
\* blank, "CAP" the capability alternation, "DOT" the final .*
Regex == <<"NS", "WS", "NS", "SP", "NS", "WS", "NS", "WS", "CAP", "WS", "NS", "WS", "DOT">>

\* a plausible slip: the alternatives written shortest first
CapAltsShortestFirst == <<1, 2, 3, 4, 5>>

\* the alternatives of group 4 in the order they are written: 5, 4, 3, 2, 1 tokens
CapAlts == <<5, 4, 3, 2, 1>>

InClass(kind, c) ==
    CASE kind = "NS" -> ~IsSpace(c)
      [] kind = "WS" -> IsSpace(c)
      [] kind = "DOT" -> c # NL
      [] OTHER -> FALSE

\* the number of consecutive characters of the class from position p on
RECURSIVE Run(_, _, _)
Run(t, kind, p) ==
    IF p > Len(t) \/ ~InClass(kind, t[p]) THEN 0
    ELSE 1 + Run(t, kind, p + 1)

\* \S( \S){n-1} at position p
CapShape(t, p, n) ==
    /\ p + 2 * n - 2 <= Len(t)
    /\ \A j \in 0..(2 * n - 2) :
          IF j % 2 = 0 THEN ~IsSpace(t[p + j]) ELSE t[p + j] = SP

NoMatch == [ok |-> FALSE, ends |-> <<>>, alt |-> 0]

\* The backtracking match of pieces i.. of Regex at position p: the first
\* success in Python's order (a greedy piece tries its longest run first,
\* the alternation its alternatives left to right).  ends[j] is the position
\* after piece i+j-1; alt is the number of tokens of the alternative taken.
RECURSIVE MatchFrom(_, _, _)
MatchFrom(t, i, p) ==
    IF i > Len(Regex) THEN [ok |-> TRUE, ends |-> <<>>, alt |-> 0]
    ELSE LET kind == Regex[i]
         IN CASE kind = "SP" ->
                   IF p <= Len(t) /\ t[p] = SP
                   THEN LET r == MatchFrom(t, i + 1, p + 1)
                        IN IF r.ok THEN [r EXCEPT !.ends = <<p + 1>> \o @] ELSE NoMatch
                   ELSE NoMatch
              [] kind = "CAP" ->
                   LET RECURSIVE TryAlt(_)
                       TryAlt(a) ==
                           IF a > Len(CapAlts) THEN NoMatch
                           ELSE LET n == CapAlts[a]
                                    e == p + 2 * n - 1
                                    r == IF CapShape(t, p, n) THEN MatchFrom(t, i + 1, e)
                                         ELSE NoMatch
                                IN IF r.ok THEN [ok |-> TRUE, ends |-> <<e>> \o r.ends, alt |-> n]
                                   ELSE TryAlt(a + 1)
                   IN TryAlt(1)
              [] kind = "DOT" ->
                   LET e == p + Run(t, kind, p)
                       r == MatchFrom(t, i + 1, e)
                   IN [r EXCEPT !.ends = <<e>> \o @]
              [] OTHER ->
                   LET RECURSIVE TryLen(_)
                       TryLen(l) ==
                           IF l < 1 THEN NoMatch
                           ELSE LET r == MatchFrom(t, i + 1, p + l)
                                IN IF r.ok THEN [r EXCEPT !.ends = <<p + l>> \o @]
                                   ELSE TryLen(l - 1)
                   IN TryLen(Run(t, kind, p))

\* the 11 groups of one match that starts at p, as re.findall returns them
Groups(t, p, m) ==
    LET e == m.ends
        cap == Slice(t, e[8], e[9])
        AltGroup(n) == IF m.alt = n THEN cap ELSE <<>>
    IN << Slice(t, p, e[1]), Slice(t, e[2], e[5]), Slice(t, e[6], e[7]), cap,
          AltGroup(5), AltGroup(4), AltGroup(3), AltGroup(2), AltGroup(1),
          Slice(t, e[10], e[11]), Slice(t, e[12], e[13]) >>

\* re.findall(regex, t): the non-overlapping matches, scanning left to right
RECURSIVE FindAllFrom(_, _)
FindAllFrom(t, p) ==
    IF p > Len(t) THEN <<>>
    ELSE LET m == MatchFrom(t, 1, p)
         IN IF m.ok THEN <<Groups(t, p, m)>> \o FindAllFrom(t, m.ends[13])
            ELSE FindAllFrom(t, p + 1)

FindAll(t) == FindAllFrom(t, 1)

\* lines 106-116: one dictionary per match, groups 10, 1 and 0
IosNeighborDict(neighbor) ==
    [neighbor_interface |-> neighbor[11],
     local_interface |-> neighbor[2],
     neighbor |-> neighbor[1]]

\* a plausible slip: split(...)[-1], which is the whole text when the marker
\* is absent
IosParseLastPart(cdp_data) ==
    LET parts == Split(cdp_data, Marker)
        cdp_neighbors == FindAll(parts[Len(parts)])
    IN [raised |-> FALSE,
        ret |-> List([k \in 1..Len(cdp_neighbors) |-> IosNeighborDict(cdp_neighbors[k])])]

\* lines 102-116 on the text cdp_data: split(...)[1] raises IndexError when
\* the marker is absent, and the bare except turns that into None
IosParse(cdp_data) ==
    LET parts == Split(cdp_data, Marker)
    IN IF Len(parts) < 2 THEN [raised |-> TRUE, ret |-> None]
       ELSE LET cdp_neighbors == FindAll(parts[2])
            IN [raised |-> FALSE,
                ret |-> List([k \in 1..Len(cdp_neighbors) |-> IosNeighborDict(cdp_neighbors[k])])]


\* ------------------------------------------------- "show cdp neighbor" text
\* What IosSwitch.ios_cdp can return: a header line and table rows.  A row is
\* described by its columns; Render writes it out as the device prints it.
\*   gap  : the number of blanks between two columns
\*   wrap : the device id is on a line of its own (a long device id)
\*   port : the remote port id; <<>> when the row lacks the column
Row(dev, wrap, gap, caps, plat, port) ==
    [dev |-> dev, wrap |-> wrap, gap |-> gap, lif |-> <<"G", "i", SP, "0">>,
     hold |-> <<"9">>, caps |-> caps, plat |-> plat, port |-> port]

RowKinds ==
    << Row(<<"s", "1">>, FALSE, 1, <<"R">>, <<"W", "S">>, <<"G", "i", SP, "1">>),
       Row(<<"s", "2">>, TRUE, 2, <<"S", "I">>, <<"W", "S">>, <<"e", "2">>),
       Row(<<"s", "3">>, FALSE, 1, <<"R", "S", "I">>, <<"N", "9">>, <<"G", "i", SP, "3">>),
       Row(<<"s", "4">>, FALSE, 2, <<"R", "T", "B", "S">>, <<"W", "S">>, <<"e", "4">>),
       Row(<<"s", "5">>, FALSE, 1, <<"R", "S", "I", "r", "P">>, <<"W", "S">>, <<"G", "i", SP, "5">>),
       Row(<<"s", "6">>, FALSE, 1, <<"R">>, <<"X">>, <<"G", "i", SP, "6">>),
       Row(<<"s", "7">>, FALSE, 1, <<"S">>, <<"W", "S">>, <<>>) >>

Blanks(n) == [j \in 1..n |-> SP]

\* the capability letters, one blank between two of them
RECURSIVE JoinCaps(_)
JoinCaps(caps) ==
    IF Len(caps) = 1 THEN <<caps[1]>>
    ELSE <<caps[1], SP>> \o JoinCaps(Tail(caps))

Render(row) ==
    LET sep == Blanks(row.gap)
    IN row.dev \o (IF row.wrap THEN <<NL>> \o sep ELSE sep)
       \o row.lif \o sep \o row.hold \o sep \o JoinCaps(row.caps) \o sep \o row.plat
       \o (IF row.port = <<>> THEN <<>> ELSE sep \o row.port) \o <<NL>>

RECURSIVE RenderRows(_)
RenderRows(rows) ==
    IF rows = <<>> THEN <<>>
    ELSE Render(RowKinds[Head(rows)]) \o RenderRows(Tail(rows))

\* the header line up to and including "Port ID", without its newline
Header == <<"I", "D", SP, SP>> \o SubSeq(Marker, 1, 7)

\* an error banner in place of the table
Banner == <<"%", SP, "B", "a", "d", NL>>

\* the text of a "show cdp neighbor" reply:
\*   hdr = "table"  : the header line, then the rows
\*   hdr = "bare"   : the header line is the last line and has no newline
\*   hdr = "banner" : no header line at all (a banner, then whatever lines follow)
Text(reply) ==
    CASE reply.hdr = "table" -> Header \o <<NL>> \o RenderRows(reply.rows)
      [] reply.hdr = "bare" -> Header
      [] OTHER -> Banner \o RenderRows(reply.rows)

\* all sequences over S of length 0..n
RECURSIVE SeqsUpTo(_, _)
SeqsUpTo(S, n) ==
    IF n = 0 THEN {<<>>}
    ELSE LET shorter == SeqsUpTo(S, n - 1)
         IN shorter \cup {Append(s, x) : s \in {q \in shorter : Len(q) = n - 1}, x \in S}

IosReplies(n) ==
    {[raises |-> FALSE, hdr |-> h, rows |-> r] :
        h \in {"table", "banner"}, r \in SeqsUpTo(1..Len(RowKinds), n)}
      \cup {[raises |-> FALSE, hdr |-> "bare", rows |-> <<>>]}

\* ConnectHandler or send_command raising (no route, bad credentials, timeout)
IosRaises == [raises |-> TRUE, hdr |-> "none", rows |-> <<>>]

\* what ios_cdp answers in a run of main: a failure, or a short reply
MainIosReplies ==
    {IosRaises} \cup
    {[raises |-> FALSE, hdr |-> h, rows |-> r] :
        h \in {"table", "banner"}, r \in {<<>>, <<1>>, <<7>>}}
      \cup {[raises |-> FALSE, hdr |-> "bare", rows |-> <<>>]}


\* ----------------------------------------------------- NX-API responses
\* nxos_cdp_filter reads .ok, .status_code, .reason, .content and .json() of
\* what NxSwitch.nx_cdp returns; content is the body, json its parse.
NxPath == <<"result", "body", "TABLE_cdp_neighbor_brief_info", "ROW_cdp_neighbor_brief_info">>

NxDoc(rows) ==
    [result |-> [body |-> [TABLE_cdp_neighbor_brief_info |->
                              [ROW_cdp_neighbor_brief_info |-> rows]]]]

NxEntries ==
    << [port_id |-> "Eth1/1", intf_id |-> "mgmt0", device_id |-> "sw2", ifindex |-> "83886080"],
       [port_id |-> "Eth1/2", intf_id |-> "Eth1/9", device_id |-> "sw3", ifindex |-> "436207616"],
       [port_id |-> "", intf_id |-> "Eth1/3", device_id |-> "sw4", ifindex |-> "436208128"],
       [port_id |-> "Eth1/4", intf_id |-> "Eth1/5", ifindex |-> "436209152"] >>

NxRowLists ==
    {<<>>, <<NxEntries[1]>>, <<NxEntries[1], NxEntries[2]>>, <<NxEntries[2], NxEntries[1]>>,
     <<NxEntries[3]>>, <<NxEntries[1], NxEntries[4]>>}

NxBodies ==
    {[json |-> TRUE, doc |-> NxDoc(rows)] : rows \in NxRowLists}
      \cup {[json |-> TRUE, doc |-> [error |-> [code |-> "-32602"]]],
            [json |-> TRUE, doc |-> [result |-> [msg |-> "Success"]]],
            [json |-> FALSE, doc |-> [html |-> "Bad Gateway"]]}

NxRaises == [raises |-> TRUE]

NxResponse(code, reason, content) ==
    [raises |-> FALSE, ok |-> code < 400, status_code |-> code, reason |-> reason,
     content |-> content]

\* what one call of nx_cdp can give: requests.post raising, or a response
NxOutcomes ==
    {NxRaises}
      \cup {NxResponse(200, "OK", b) : b \in NxBodies}
      \cup {NxResponse(401, "Unauthorized", [json |-> FALSE, doc |-> [html |-> "denied"]]),
            NxResponse(500, "Internal Server Error",
                       [json |-> TRUE, doc |-> [error |-> [code |-> "-32603"]]])}

\* d[k1][k2]...: found is FALSE where Python raises KeyError
RECURSIVE Lookup(_, _)
Lookup(d, path) ==
    IF path = <<>> THEN [found |-> TRUE, val |-> d]
    ELSE IF Head(path) \in DOMAIN d THEN Lookup(d[Head(path)], Tail(path))
    ELSE [found |-> FALSE, val |-> <<>>]

HasKeys(entry, keys) == keys \subseteq DOMAIN entry

\* lines 66-70
NxNeighborDict(neighbor) ==
    [neighbor_interface |-> neighbor.port_id,
     local_interface |-> neighbor.intf_id,
     neighbor |-> neighbor.device_id]

\* the number of calls of nx_cdp one call of nxos_cdp_filter makes: line 59,
\* and line 61 once more when the first response is ok
NxFetches(r1) == IF ~r1.raises /\ r1.ok THEN 2 ELSE 1

\* a plausible slip: raise_for_status() in place of the printed report
NxFailureRaises(r1) == [raised |-> TRUE, ret |-> None, out |-> <<>>]

\* lines 76-79: the else branch prints the report and falls off the end of
\* the function, which returns None
NxFailure(r1) ==
    [raised |-> FALSE, ret |-> None,
     out |-> <<[msg |-> "The request failed!", status_code |-> r1.status_code,
                reason |-> r1.reason, content |-> r1.content]>>]

\* lines 58-79.  r1 is what the call of line 59 gives, r2 what the call of
\* line 61 gives.  raised: an exception leaves the function (nothing catches
\* it); out: what is printed.
NxosCdpFilter(r1, r2) ==
    IF r1.raises THEN [raised |-> TRUE, ret |-> None, out |-> <<>>]
    ELSE IF r1.ok THEN
        IF r2.raises \/ ~r2.content.json THEN [raised |-> TRUE, ret |-> None, out |-> <<>>]
        ELSE LET cdp_filtered == Lookup(r2.content.doc, NxPath)
             IN IF ~cdp_filtered.found
                   \/ \E k \in 1..Len(cdp_filtered.val) :
                          ~HasKeys(cdp_filtered.val[k], {"port_id", "intf_id", "device_id"})
                THEN [raised |-> TRUE, ret |-> None, out |-> <<>>]
                ELSE [raised |-> FALSE,
                      ret |-> List([k \in 1..Len(cdp_filtered.val) |->
                                       NxNeighborDict(cdp_filtered.val[k])]),
                      out |-> <<>>]
    ELSE NxFailure(r1)

\* ------------------------------------------------------- ios_cdp_filter
\* lines 98-119: everything is inside try/except, so nothing is raised
IosCdpFilter(device, reply) ==
    LET r == IF reply.raises THEN [raised |-> TRUE, ret |-> None]
             ELSE IosParse(Text(reply))
    IN [raised |-> FALSE, ret |-> r.ret,
        out |-> IF r.raised THEN <<[msg |-> "Couldn't login into", device |-> device]>>
                ELSE <<>>]

\* ------------------------------------------------------ eos_lldp_filter
EosEntries ==
    << [neighborPort |-> "Ethernet1", port |-> "Ethernet2", neighborDevice |-> "sp1", ttl |-> "120"],
       [neighborPort |-> "Ethernet3", port |-> "Management1", neighborDevice |-> "sp2", ttl |-> "120"],
       [neighborPort |-> "Ethernet5", port |-> "Ethernet6", neighborDevice |-> "", ttl |-> "120"],
       [neighborPort |-> "Ethernet7", neighborDevice |-> "sp4", ttl |-> "120"] >>

EosRowLists ==
    {<<>>, <<EosEntries[1]>>, <<EosEntries[1], EosEntries[2]>>, <<EosEntries[2], EosEntries[1]>>,
     <<EosEntries[3]>>, <<EosEntries[1], EosEntries[4]>>}

\* what eos_connect and enable('show lldp neighbors') give: connect_to or
\* enable raising, or the list enable returns
EosOutcomes ==
    {[raises |-> TRUE, result |-> <<>>]}
      \cup {[raises |-> FALSE, result |-> <<>>]}
      \cup {[raises |-> FALSE, result |-> <<[command |-> "show lldp neighbors"]>>]}
      \cup {[raises |-> FALSE,
             result |-> <<[command |-> "show lldp neighbors",
                           result |-> [lldpNeighbors |-> rows]]>>] : rows \in EosRowLists}

\* lines 141-145
EosNeighborDict(neighbor) ==
    [neighbor_interface |-> neighbor.neighborPort,
     local_interface |-> neighbor.port,
     neighbor |-> neighbor.neighborDevice]

\* lines 134-152: [0] of an empty list, a missing key: all inside try/except
EosLldpFilter(device, reply) ==
    LET failed == [raised |-> FALSE, ret |-> None,
                   out |-> <<[msg |-> "Couldn't login into:", device |-> device]>>]
    IN IF reply.raises \/ Len(reply.result) < 1 THEN failed
       ELSE LET lldp == Lookup(reply.result[1], <<"result", "lldpNeighbors">>)
            IN IF ~lldp.found
                  \/ \E k \in 1..Len(lldp.val) :
                         ~HasKeys(lldp.val[k], {"neighborPort", "port", "neighborDevice"})
               THEN failed
               ELSE [raised |-> FALSE,
                     ret |-> List([k \in 1..Len(lldp.val) |-> EosNeighborDict(lldp.val[k])]),
                     out |-> <<>>]


\* ------------------------------------------------------------------ main
\* inventory.csv: one row per device; 'junos' stands for a tag main ignores
OsTags == {"nxos", "ios", "eos", "junos"}

Device(i, os) == [hostname |-> i, ip |-> 10 + i, os |-> os]

Inventories(n) ==
    {[i \in 1..Len(tags) |-> Device(i, tags[i])] : tags \in SeqsUpTo(OsTags, n)}

\* the second response of a call that never asked for one
NotFetched == [raises |-> TRUE, unused |-> TRUE]

NoReply == [raises |-> TRUE, unused |-> TRUE]

NoCall ==
    [os |-> "none", device |-> Device(0, "none"), r1 |-> NotFetched, r2 |-> NotFetched,
     reply |-> NoReply, fetches |-> 0,
     res |-> [raised |-> FALSE, ret |-> None, out |-> <<>>]]

\* d[key] = value on a dictionary
DictSet(d, key, value) ==
    [k \in DOMAIN d \cup {key} |-> IF k = key THEN value ELSE d[k]]

\* json.dumps of inv_dict: None becomes null, a list an array of objects
Dumps(d) ==
    [k \in DOMAIN d |->
        IF d[k].kind = "None" THEN [json |-> "null", items |-> <<>>]
        ELSE [json |-> "array", items |-> d[k].val]]

Init ==
    /\ inventory \in Inventories(MaxDevices)
    /\ idx = 1
    /\ pc = "loop"
    /\ inv_dict = [k \in {} |-> None]
    /\ fout = [written |-> FALSE, text |-> [k \in {} |-> None]]
    /\ stdout = <<>>
    /\ last = NoCall

\* the end of one extractor call in main's loop (lines 28, 31, 34): the
\* assignment to inv_dict happens only if the call returns
Dispatch(device, call) ==
    /\ last' = call
    /\ stdout' = stdout \o call.res.out
    /\ IF call.res.raised
       THEN /\ pc' = "aborted"
            /\ UNCHANGED <<idx, inv_dict>>
       ELSE /\ pc' = pc
            /\ idx' = idx + 1
            /\ inv_dict' = DictSet(inv_dict, device.hostname, call.res.ret)
    /\ UNCHANGED <<inventory, fout>>

AtDevice(os) ==
    /\ pc = "loop"
    /\ idx <= Len(inventory)
    /\ inventory[idx].os = os

\* lines 27-28
NxStep ==
    /\ AtDevice("nxos")
    /\ \E r1 \in NxOutcomes :
         \E r2 \in (IF NxFetches(r1) = 2 THEN NxOutcomes ELSE {NotFetched}) :
            Dispatch(inventory[idx],
                     [os |-> "nxos", device |-> inventory[idx], r1 |-> r1, r2 |-> r2,
                      reply |-> NoReply, fetches |-> NxFetches(r1),
                      res |-> NxosCdpFilter(r1, r2)])

\* lines 30-31
IosStep(replies) ==
    /\ AtDevice("ios")
    /\ \E reply \in replies :
         Dispatch(inventory[idx],
                  [os |-> "ios", device |-> inventory[idx], r1 |-> NotFetched,
                   r2 |-> NotFetched, reply |-> reply, fetches |-> 1,
                   res |-> IosCdpFilter(inventory[idx].ip, reply)])

\* lines 33-34
EosStep ==
    /\ AtDevice("eos")
    /\ \E reply \in EosOutcomes :
         Dispatch(inventory[idx],
                  [os |-> "eos", device |-> inventory[idx], r1 |-> NotFetched,
                   r2 |-> NotFetched, reply |-> reply, fetches |-> 1,
                   res |-> EosLldpFilter(inventory[idx].hostname, reply)])

\* a device whose tag matches none of the branches of lines 27-34
SkipStep ==
    /\ pc = "loop"
    /\ idx <= Len(inventory)
    /\ inventory[idx].os \notin {"nxos", "ios", "eos"}
    /\ idx' = idx + 1
    /\ UNCHANGED <<inventory, pc, inv_dict, fout, stdout, last>>

\* lines 36-41: after the loop, print the mapping and write the file
Finish ==
    /\ pc = "loop"
    /\ idx > Len(inventory)
    /\ pc' = "done"
    /\ stdout' = Append(stdout, [msg |-> "pprint", mapping |-> inv_dict])
    /\ fout' = [written |-> TRUE, text |-> Dumps(inv_dict)]
    /\ UNCHANGED <<inventory, idx, inv_dict, last>>

Next == NxStep \/ IosStep(MainIosReplies) \/ EosStep \/ SkipStep \/ Finish

Spec == Init /\ [][Next]_vars

\* ios_cdp_filter alone, on every reply of up to MaxRows table rows
InitIos ==
    /\ inventory = <<Device(1, "ios")>>
    /\ idx = 1
    /\ pc = "loop"
    /\ inv_dict = [k \in {} |-> None]
    /\ fout = [written |-> FALSE, text |-> [k \in {} |-> None]]
    /\ stdout = <<>>
    /\ last = NoCall

NextIos == IosStep(IosReplies(MaxRows) \cup {IosRaises}) \/ Finish

SpecIos == InitIos /\ [][NextIos]_vars


\* ================================================================ claims
\* what the claims call the header marker: the token sequence ending in "Port ID"
PortId == SubSeq(Marker, 1, 7)

HasMarker(text) == Find(text, PortId, 1) # 0

\* a row with all its columns
WellFormed(row) == row.port # <<>>

\* a row whose platform cannot be read as one more capability letter
Unambiguous(row) == Len(row.plat) > 1 \/ row.gap > 1

\* the record a table row stands for
Expected(row) ==
    [neighbor_interface |-> row.port, local_interface |-> row.lif, neighbor |-> row.dev]

RowsOf(reply) == [k \in 1..Len(reply.rows) |-> RowKinds[reply.rows[k]]]

AllRows(reply, P(_)) == \A k \in 1..Len(reply.rows) : P(RowKinds[reply.rows[k]])

IosTable == last.os = "ios" /\ ~last.reply.raises /\ last.reply.hdr = "table"

\* the loop has gone past the device of the last call
WentOn == pc # "aborted" /\ idx > last.device.hostname

\* an NX-API response that is ok and carries the nested path
NxGood(r) ==
    /\ ~r.raises
    /\ r.ok
    /\ r.content.json
    /\ Lookup(r.content.doc, NxPath).found

NxRows(r) == Lookup(r.content.doc, NxPath).val

EosGood(reply) ==
    /\ ~reply.raises
    /\ Len(reply.result) >= 1
    /\ Lookup(reply.result[1], <<"result", "lldpNeighbors">>).found

EosRows(reply) == Lookup(reply.result[1], <<"result", "lldpNeighbors">>).val

RecognisedHosts ==
    {inventory[k].hostname : k \in {j \in 1..Len(inventory) : inventory[j].os \in {"nxos", "ios", "eos"}}}

\* C1: the run of main never aborts: whatever each device does, the loop
\* reaches its end and the file is written with an entry for every device of
\* a recognised tag, the entry of a device that gave records being those
\* records.
C1_RunNeverAborts ==
    /\ pc # "aborted"
    /\ pc = "done" =>
          /\ fout.written
          /\ DOMAIN fout.text = RecognisedHosts
          /\ last.res.ret.kind = "list" =>
                fout.text[last.device.hostname].items = last.res.ret.val

\* C2: an ok NX-API response without the nested path (the device answering
\* the same way each time it is asked) is a reported extraction failure: the
\* run is not aborted, something is printed, and the result is not the empty
\* list that an empty table gives.
C2_MissingPathIsReported ==
    (/\ last.os = "nxos"
     /\ ~last.r1.raises
     /\ last.r1.ok
     /\ last.r1.content.json
     /\ ~Lookup(last.r1.content.doc, NxPath).found
     /\ last.r2 = last.r1)
    => /\ ~last.res.raised
       /\ pc # "aborted"
       /\ last.res.out # <<>>
       /\ last.res.ret # List(<<>>)

\* C3: when the NX-API response is not ok, nxos_cdp_filter gives no records,
\* prints one report holding the response's status code, reason and content,
\* raises nothing, and main goes on past the device.
C3_FailedRequestReported ==
    (last.os = "nxos" /\ ~last.r1.raises /\ ~last.r1.ok)
    => /\ last.res.ret = None
       /\ ~last.res.raised
       /\ last.res.out = <<[msg |-> "The request failed!",
                            status_code |-> last.r1.status_code,
                            reason |-> last.r1.reason,
                            content |-> last.r1.content]>>
       /\ last.fetches = 1
       /\ \E k \in 1..Len(stdout) : stdout[k] = last.res.out[1]
       /\ WentOn
       /\ inv_dict[last.device.hostname] = None

\* C3 witness: a 401 from a Nexus switch that is not the last device, with
\* the loop standing at the device after it
C3_Witness ==
    /\ last.os = "nxos"
    /\ ~last.r1.raises
    /\ last.r1.status_code = 401
    /\ pc = "loop"
    /\ idx = last.device.hostname + 1
    /\ idx <= Len(inventory)

\* C4: a text without "Port ID" gives no record list (None), one printed
\* report for the device, no exception, and main goes on past the device.
C4_NoMarkerNoRecords ==
    (last.os = "ios" /\ ~last.reply.raises /\ ~HasMarker(Text(last.reply)))
    => /\ last.res.ret = None
       /\ ~last.res.raised
       /\ last.res.out = <<[msg |-> "Couldn't login into", device |-> last.device.ip]>>
       /\ \E k \in 1..Len(stdout) : stdout[k] = last.res.out[1]
       /\ WentOn
       /\ inv_dict[last.device.hostname] = None

\* C4 witness: a banner followed by a line that would parse as a table row,
\* from a device that is not the last one
C4_Witness ==
    /\ last.os = "ios"
    /\ ~last.reply.raises
    /\ last.reply.hdr = "banner"
    /\ last.reply.rows = <<1>>
    /\ pc = "loop"
    /\ idx = last.device.hostname + 1
    /\ idx <= Len(inventory)

\* the groups and the records of a table agree with its rows, column by column
RowsParsedExactly(reply) ==
    LET m == FindAll(RenderRows(reply.rows))
        rows == RowsOf(reply)
    IN /\ Len(m) = Len(rows)
       /\ \A k \in 1..Len(rows) :
             /\ m[k][4] = JoinCaps(rows[k].caps)
             /\ m[k][10] = rows[k].plat
             /\ m[k][11] = rows[k].port
       /\ last.res.ret = List([k \in 1..Len(rows) |-> Expected(rows[k])])

RECURSIVE KeepWellFormed(_)
KeepWellFormed(rows) ==
    IF rows = <<>> THEN <<>>
    ELSE (IF WellFormed(Head(rows)) THEN <<Head(rows)>> ELSE <<>>) \o KeepWellFormed(Tail(rows))

\* C6: a row that lacks a column is dropped on its own: the records of a
\* table are exactly the records of its well-formed rows, in order (rows
\* whose platform could pass for a capability letter left aside).
C6_MalformedRowDroppedAlone ==
    (IosTable /\ AllRows(last.reply, Unambiguous))
    => LET good == KeepWellFormed(RowsOf(last.reply))
       IN last.res.ret = List([k \in 1..Len(good) |-> Expected(good[k])])

\* C7: every record an extractor returns has its three fields non-empty.
C7_FieldsNonEmpty ==
    last.res.ret.kind = "list"
    => \A k \in 1..Len(last.res.ret.val) :
          LET rec == last.res.ret.val[k]
          IN IF last.os = "ios"
             THEN rec.neighbor_interface # <<>> /\ rec.local_interface # <<>> /\ rec.neighbor # <<>>
             ELSE rec.neighbor_interface # "" /\ rec.local_interface # "" /\ rec.neighbor # ""

\* C8: an empty neighbor table (an ok NX-API response whose entry sequence is
\* empty, the device answering the same way each time it is asked; a text
\* whose header line is followed by no row; an lldpNeighbors that is empty)
\* gives the empty list and no report.
C8_EmptyTableEmptyList ==
    LET empty ==
          \/ last.os = "nxos" /\ NxGood(last.r1) /\ NxRows(last.r1) = <<>>
               /\ last.r2 = last.r1
          \/ last.os = "ios" /\ ~last.reply.raises /\ last.reply.hdr \in {"table", "bare"}
               /\ last.reply.rows = <<>>
          \/ last.os = "eos" /\ EosGood(last.reply) /\ EosRows(last.reply) = <<>>
    IN empty => /\ last.res.ret = List(<<>>)
                /\ last.res.out = <<>>
                /\ ~last.res.raised

\* C9: a successful structured response of n entries (each with its three
\* keys) gives n records, the i-th made of the i-th entry: port_id, intf_id,
\* device_id for NX-OS, neighborPort, port, neighborDevice for EOS.
C9_StructuredMapping ==
    /\ (/\ last.os = "nxos"
        /\ NxGood(last.r1)
        /\ \A k \in 1..Len(NxRows(last.r1)) :
              HasKeys(NxRows(last.r1)[k], {"port_id", "intf_id", "device_id"}))
       => last.res.ret =
             List([k \in 1..Len(NxRows(last.r1)) |->
                     [neighbor_interface |-> NxRows(last.r1)[k].port_id,
                      local_interface |-> NxRows(last.r1)[k].intf_id,
                      neighbor |-> NxRows(last.r1)[k].device_id]])
    /\ (/\ last.os = "eos"
        /\ EosGood(last.reply)
        /\ \A k \in 1..Len(EosRows(last.reply)) :
              HasKeys(EosRows(last.reply)[k], {"neighborPort", "port", "neighborDevice"}))
       => last.res.ret =
             List([k \in 1..Len(EosRows(last.reply)) |->
                     [neighbor_interface |-> EosRows(last.reply)[k].neighborPort,
                      local_interface |-> EosRows(last.reply)[k].port,
                      neighbor |-> EosRows(last.reply)[k].neighborDevice]])

\* C10: one extractor call asks its device for the neighbor data at most once.
C10_SingleShot == last.fetches <= 1

=============================================================================
